---- MODULE Spec2Model ----
(***************************************************************************)
(* Model of the Kenya trends automation (src/main.py): the post generator  *)
(* (generate_context, create_social_media_posts), the processed-keyword    *)
(* log (load_previous_trends, save_processed_trends), the output file      *)
(* (save_data), one run (run_automation) and the scheduler loop            *)
(* (setup_scheduler); and of Config.get_template_by_category               *)
(* (src/config.py).                                                        *)
(*                                                                         *)
(* Strings are TLA+ strings; Python's len() counts code points, so every   *)
(* non-ASCII code point of a template is written as one "~".               *)
(***************************************************************************)
EXTENDS Integers, Sequences, FiniteSets, TLC

VARIABLES
    rng,        \* state of the random module's generator
    call,       \* the call being made: operation and arguments
    ret,        \* what that call returned or raised
    logFile,    \* content of previous_trends.json
    now,        \* the wall clock, in ticks
    files,      \* the output files: filename -> content
    jobs,       \* the scheduler's jobs: next_run of each
    pc,         \* position of the scheduler loop
    run,        \* record of the last run of run_automation
    upstream    \* what the trends service answers during the current run

vars == <<rng, call, ret, logFile, now, files, jobs, pc, run, upstream>>

(***************************************************************************)
(* Strings                                                                 *)
(***************************************************************************)

\* s[i] of Python (1-based here)
CharAt(s, i) == SubSeq(s, i, i)

\* sub in s
Contains(s, sub) ==
    \E i \in 1..(Len(s) - Len(sub) + 1) : SubSeq(s, i, i + Len(sub) - 1) = sub

\* the least position of a set of positions, 0 if there is none
Least(positions) ==
    IF positions = {} THEN 0
    ELSE CHOOSE i \in positions : \A j \in positions : i <= j

\* s.find(c, from): position of the first c at or after from, 0 if none
Find(s, c, from) == Least({ i \in from..Len(s) : CharAt(s, i) = c })

Min(a, b) == IF a < b THEN a ELSE b

\* " ".join(parts)
RECURSIVE Join(_)
Join(parts) ==
    IF Len(parts) = 0 THEN ""
    ELSE IF Len(parts) = 1 THEN parts[1]
    ELSE parts[1] \o " " \o Join(Tail(parts))

\* seq[:n]
Take(seq, n) == SubSeq(seq, 1, Min(n, Len(seq)))

\* the outcome of a call: exc is "" when it returned value
Return(v) == [exc |-> "", value |-> v]
Raise(e)  == [exc |-> e, value |-> ""]

\* dict.get(k, default), a dict being a function on its keys
DictGet(d, k, default) == IF k \in DOMAIN d THEN d[k] ELSE default

EmptyDict == [k \in {} |-> ""]

(***************************************************************************)
(* str.format(keyword=..., context=...)                                    *)
(***************************************************************************)

\* the first of two positions, 0 standing for none
FirstOf(o, c) == IF o = 0 THEN c ELSE IF c = 0 THEN o ELSE IF o < c THEN o ELSE c

\* the position of the first brace of s at or after from, 0 if none
FirstBrace(s, from) == FirstOf(Find(s, "{", from), Find(s, "}", from))

\* text put before the rest of the result, unless the rest raised
Prepend(text, rest) ==
    IF rest.exc # "" THEN rest ELSE Return(text \o rest.value)

RECURSIVE FormatFrom(_, _, _, _)

\* the replacement field t[p..q]: a field naming no argument raises KeyError
\* (IndexError when it has no name)
FormatField(t, from, p, q, field, keyword, context) ==
    IF field \notin {"keyword", "context"}
    THEN Raise(IF field = "" THEN "IndexError" ELSE "KeyError")
    ELSE Prepend(SubSeq(t, from, p - 1)
                    \o (IF field = "keyword" THEN keyword ELSE context),
                 FormatFrom(t, q + 1, keyword, context))

\* the field opened at p and closed at q; a field never closed is a ValueError
FormatOpen(t, from, p, q, keyword, context) ==
    IF q = 0 THEN Raise("ValueError")
    ELSE FormatField(t, from, p, q, SubSeq(t, p + 1, q - 1), keyword, context)

\* the brace at p, the first one from `from`: "{{" and "}}" are escapes, a
\* single "}" is a ValueError
FormatBrace(t, from, p, keyword, context) ==
    IF p = 0 THEN Return(SubSeq(t, from, Len(t)))
    ELSE IF p < Len(t) /\ CharAt(t, p + 1) = CharAt(t, p)
    THEN Prepend(SubSeq(t, from, p), FormatFrom(t, p + 2, keyword, context))
    ELSE IF CharAt(t, p) = "}" THEN Raise("ValueError")
    ELSE FormatOpen(t, from, p, Find(t, "}", p + 1), keyword, context)

\* template.format(keyword=keyword, context=context) from position `from`:
\* literal text is copied, a field is replaced by the argument of its name
FormatFrom(t, from, keyword, context) ==
    FormatBrace(t, from, FirstBrace(t, from), keyword, context)

Format(t, keyword, context) == FormatFrom(t, 1, keyword, context)

(***************************************************************************)
(* SocialMediaGenerator.__init__                                           *)
(***************************************************************************)

post_templates ==
    [trending |-> <<
        "~ What's trending in Kenya right now: '{keyword}' is gaining massive attention! {context} #TrendingKenya #Kenya",
        "~ Kenyans are talking about '{keyword}' - here's what you need to know: {context} #KenyaTrends",
        "~~ Breaking: '{keyword}' is trending across Kenya! {context} #KenyaNews #Trending",
        "~ Hot topic alert: '{keyword}' is the talk of Kenya today! {context} #KenyaTrends #Viral" >>,
     educational |-> <<
        "~ Did you know? '{keyword}' is trending in Kenya. Here's why it matters: {context} #LearnSomethingNew #Kenya",
        "~ Trending topic breakdown: '{keyword}' explained for Kenyans {context} #Education #KenyaInsights",
        "~ Understanding the buzz around '{keyword}' in Kenya: {context} #Knowledge #TrendAnalysis" >>,
     engagement |-> <<
        "~ What do you think about '{keyword}' trending in Kenya? Share your thoughts! {context} #KenyaDebate",
        "~ Poll time! How do you feel about '{keyword}' trending in Kenya? {context} #KenyaOpinion #Vote",
        "~ Let's discuss: '{keyword}' is trending - what's your take, Kenya? {context} #Discussion" >>]

hashtags_kenya ==
    << "#Kenya", "#Nairobi", "#KenyaTrends", "#KOT", "#TukoTogether",
       "#KenyaDaily", "#EastAfrica", "#Kenyan", "#NairobiLife", "#KenyaNews" >>

(***************************************************************************)
(* The values the trends service puts under 'top' and 'rising'             *)
(***************************************************************************)

NoneVal         == [kind |-> "None", rows |-> << >>]
DataFrame(rows) == [kind |-> "DataFrame", rows |-> rows]
PyList(rows)    == [kind |-> "list", rows |-> rows]

\* bool(v), as the if statement evaluates it: None and [] are false, a
\* non-empty list is true, the truth value of a DataFrame is ambiguous
Truth(v) ==
    CASE v.kind = "None"      -> [exc |-> "", value |-> FALSE]
      [] v.kind = "list"      -> [exc |-> "", value |-> Len(v.rows) > 0]
      [] v.kind = "DataFrame" -> [exc |-> "ValueError", value |-> FALSE]

(***************************************************************************)
(* SocialMediaGenerator.generate_context                                   *)
(***************************************************************************)

PeakPhrase     == "Search interest is at its peak!"
GrowingPhrase  == "Growing rapidly in search trends."
MomentumPhrase == "Gaining momentum in search interest."
Fallback       == "Stay updated with the latest trends!"

RelatedPhrase(query) == "Related searches include '" \o query \o "'"

\* the interest level context with the thresholds taken inclusively
TierParts_inclusive(keyword, interest_data) ==
    IF keyword \in DOMAIN interest_data
    THEN LET interest_level == interest_data[keyword] IN
         IF interest_level >= 80 THEN << PeakPhrase >>
         ELSE IF interest_level >= 50 THEN << GrowingPhrase >>
         ELSE << MomentumPhrase >>
    ELSE << >>

\* the interest level context
TierParts(keyword, interest_data) ==
    IF keyword \in DOMAIN interest_data
    THEN LET interest_level == interest_data[keyword] IN
         IF interest_level > 80 THEN << PeakPhrase >>
         ELSE IF interest_level > 50 THEN << GrowingPhrase >>
         ELSE << MomentumPhrase >>
    ELSE << >>

\* if related_queries.get('top'): ... with top the value got: the parts to
\* append, or the exception
RelatedOfTop(top) ==
    IF Truth(top).exc # "" THEN [exc |-> Truth(top).exc, value |-> << >>]
    ELSE IF ~Truth(top).value THEN [exc |-> "", value |-> << >>]
    ELSE IF top.kind # "DataFrame"
         THEN [exc |-> "AttributeError", value |-> << >>]
    ELSE IF Len(top.rows) > 0
         THEN [exc |-> "", value |-> << RelatedPhrase(top.rows[1].query) >>]
    ELSE [exc |-> "", value |-> << >>]

\* the related queries context
RelatedParts(related_queries) ==
    RelatedOfTop(DictGet(related_queries, "top", NoneVal))

\* the return statement, or the exception met on the way; the result
\* carries context_parts as they are when the function ends
JoinParts(tier, related) ==
    IF related.exc # ""
    THEN [exc |-> related.exc, value |-> "", parts |-> tier]
    ELSE [exc   |-> "",
          value |-> IF Len(tier \o related.value) > 0
                    THEN Join(tier \o related.value)
                    ELSE Fallback,
          parts |-> tier \o related.value]

generate_context(keyword, interest_data, related_queries) ==
    JoinParts(TierParts(keyword, interest_data), RelatedParts(related_queries))

(***************************************************************************)
(* The random module: a generator whose seed is not known                  *)
(***************************************************************************)

RngModulus == 31

random_next(r) == (7 * r + 3) % RngModulus

\* _randbelow(n): the draw and the generator's next state
randbelow(r, n) == [value |-> random_next(r) % n, rng |-> random_next(r)]

\* seq[d] for a draw d
Drawn(seq, d) == [value |-> seq[d.value + 1], rng |-> d.rng]

\* random.choice(seq) is seq[_randbelow(len(seq))]
choice(r, seq) == Drawn(seq, randbelow(r, Len(seq)))

\* the sampled element put before the rest of the sample
Sampled(x, rest) == [value |-> << x >> \o rest.value, rng |-> rest.rng]

RECURSIVE SampleFrom(_, _, _, _)

\* pool[j] is taken for the draw d and its slot refilled with the pool's
\* last live element
SampleDraw(pool, n, k, d) ==
    Sampled(pool[d.value + 1],
            SampleFrom(d.rng, [pool EXCEPT ![d.value + 1] = pool[n]], n - 1, k - 1))

\* random.sample(population, k) for a small population: k draws from a pool
SampleFrom(r, pool, n, k) ==
    IF k = 0 THEN [value |-> << >>, rng |-> r]
    ELSE SampleDraw(pool, n, k, randbelow(r, n))

sample(r, population, k) == SampleFrom(r, population, Len(population), k)

(***************************************************************************)
(* SocialMediaGenerator.create_social_media_posts                          *)
(***************************************************************************)

TemplateTypes == << "trending", "educational", "engagement" >>

\* the post content after the hashtags are appended
WithHashtags(post_content, hashtags) == post_content \o " " \o Join(hashtags)

\* the length taken before the hashtags are appended
CharacterCount_early(post_content, hashtags) == Len(post_content)

\* len(post_content) of the post object
CharacterCount(post_content, hashtags) == Len(WithHashtags(post_content, hashtags))

\* an iteration that raised exc
Raised(exc, r) == [exc |-> exc, value |-> << >>, rng |-> r]

\* the post object, once the hashtags are sampled
PostObject(keyword, template_type, post_content, hashtags, t) ==
    [exc   |-> "",
     value |-> << [content         |-> WithHashtags(post_content, hashtags.value),
                   keyword         |-> keyword,
                   template_type   |-> template_type,
                   timestamp       |-> t,
                   platform        |-> "multiple",
                   character_count |-> CharacterCount(post_content, hashtags.value)] >>,
     rng   |-> hashtags.rng]

\* the post content formatted: the hashtags are sampled and added
AddHashtags(keyword, template_type, post_content, r, t) ==
    IF post_content.exc # "" THEN Raised(post_content.exc, r)
    ELSE PostObject(keyword, template_type, post_content.value,
                    sample(r, hashtags_kenya, 3), t)

\* the template chosen: the post content is formatted
FillTemplate(keyword, context, template_type, template, t) ==
    AddHashtags(keyword, template_type,
                Format(template.value, keyword, context), template.rng, t)

\* the template type chosen: a template of that type is chosen
ChooseTemplate(keyword, context, template_type, t) ==
    FillTemplate(keyword, context, template_type.value,
                 choice(template_type.rng, post_templates[template_type.value]), t)

\* the context generated: a template type is chosen
WithContext(keyword, context, r, t) ==
    IF context.exc # "" THEN Raised(context.exc, r)
    ELSE ChooseTemplate(keyword, context.value, choice(r, TemplateTypes), t)

\* one iteration of the loop: the post, or the exception, and the generator
ComposePost(keyword, interest_data, related_queries_data, r, t) ==
    WithContext(keyword,
                generate_context(keyword, interest_data,
                                 DictGet(related_queries_data, keyword, EmptyDict)),
                r, t)

\* posts.append(post) seen from the first post on
Appended(first, rest) ==
    IF rest.exc # "" THEN rest
    ELSE [exc |-> "", value |-> first.value \o rest.value, rng |-> rest.rng]

RECURSIVE ComposeAll(_, _, _, _, _)

\* the iterations after the first: an exception in one leaves the loop
ComposeRest(first, keywords, interest_data, related_queries_data, t) ==
    IF first.exc # "" THEN first
    ELSE Appended(first, ComposeAll(keywords, interest_data, related_queries_data,
                                    first.rng, t))

\* the loop over the keywords
ComposeAll(keywords, interest_data, related_queries_data, r, t) ==
    IF Len(keywords) = 0 THEN [exc |-> "", value |-> << >>, rng |-> r]
    ELSE ComposeRest(ComposePost(Head(keywords), interest_data,
                                 related_queries_data, r, t),
                     Tail(keywords), interest_data, related_queries_data, t)

\* trending_keywords[:5]
TopKeywords(trending_keywords) == Take(trending_keywords, 5)

create_social_media_posts(trending_keywords, interest_data, related_queries_data, r, t) ==
    ComposeAll(TopKeywords(trending_keywords), interest_data, related_queries_data, r, t)

(***************************************************************************)
(* The inputs of the generator's calls                                     *)
(***************************************************************************)

MaxKeywords == 6

\* keywords the trends service may list, in its ranking order
KeywordPool ==
    << "NTSA", "KCSE 2024", "Harambee Stars", "Safaricom", "Gor Mahia",
       "HELB", "M-Pesa", "Safari Rally", "Tusker FC", "CBC" >>

\* ranked keyword lists of every length up to MaxKeywords
KeywordLists ==
    { SubSeq(KeywordPool, s, s + n - 1) : s \in 1..2, n \in 0..MaxKeywords }

Range(seq) == { seq[i] : i \in 1..Len(seq) }

Scores == 0..100

Row(q) == [query |-> q, value |-> 100]

\* what 'top' or 'rising' may hold
TopValues ==
    { NoneVal, PyList(<< >>), DataFrame(<< >>),
      PyList(<< Row("ntsa tims"), Row("ntsa portal") >>),
      DataFrame(<< Row("ntsa tims") >>),
      DataFrame(<< Row("kcse results"), Row("knec portal") >>) }

RisingValues == { NoneVal, DataFrame(<< Row("helb loan") >>) }

\* the related queries of one keyword: {} or a dict with some of the two keys
RelatedSets ==
    { EmptyDict }
    \cup { [k \in {"rising"} |-> r] : r \in RisingValues }
    \cup { [k \in {"top"} |-> t] : t \in TopValues }
    \cup { [top |-> t, rising |-> r] : t \in TopValues, r \in RisingValues }

\* the interest data of a generate_context call
InterestOf(keyword) ==
    { EmptyDict, [k \in {"Nairobi"} |-> 70] }
    \cup { [k \in {keyword} |-> s] : s \in Scores }

\* previous_trends.json when it does not exist
MissingFile == [kind |-> "missing", data |-> EmptyDict]

\* before: the log file as the call found it; io: what the call's write met
NoCall == [op |-> "", keyword |-> "", category |-> "", trending_keywords |-> << >>,
           interest_data |-> EmptyDict, related |-> EmptyDict,
           before |-> MissingFile, io |-> ""]
NoRet  == [exc |-> "pending", value |-> "", parts |-> << >>]

ContextCalls ==
    { [NoCall EXCEPT !.op = "generate_context", !.keyword = kw,
                     !.interest_data = i, !.related = rq] :
        kw \in {"NTSA", "KCSE 2024"}, i \in InterestOf("NTSA"), rq \in RelatedSets }

\* the interest data of a create_social_media_posts call: none, the score of
\* the first keyword alone, or a score for each of the first five
InterestData(keywords) ==
    { EmptyDict }
    \cup (IF Len(keywords) = 0 THEN {}
          ELSE { [k \in {keywords[1]} |-> 85] }
               \cup { [k \in Range(Take(keywords, 5)) |-> s] : s \in {10, 60} })

\* the related queries of a create_social_media_posts call: none, or a dict
\* for the first three keywords in which one keyword has the given set
RelatedData(keywords) ==
    { EmptyDict }
    \cup { [k \in Range(Take(keywords, 3)) |->
                IF k = keywords[i] THEN rq ELSE EmptyDict] :
            i \in 1..Min(3, Len(keywords)),
            rq \in { [top |-> t, rising |-> NoneVal] : t \in TopValues } }

CreateCalls ==
    UNION { { [NoCall EXCEPT !.op = "create_social_media_posts",
                             !.trending_keywords = kws,
                             !.interest_data = i, !.related = rd] :
                i \in InterestData(kws), rd \in RelatedData(kws) } :
            kws \in KeywordLists }

(***************************************************************************)
(* Config: the template pools and get_template_by_category                 *)
(***************************************************************************)

\* Config.POST_TEMPLATES, every character outside ASCII written as "~"
POST_TEMPLATES ==
    [trending |-> <<
        "~ What's hot in Kenya: '{keyword}' is trending! {context} #TrendingKenya",
        "~ Kenyans can't stop talking about '{keyword}' - {context} #KOT #Kenya",
        "~ Breaking trend: '{keyword}' is taking over Kenya! {context} #Viral",
        "~~ Trending now: '{keyword}' - here's what Kenyans are saying {context}" >>,
     educational |-> <<
        "~ Trend explained: Why '{keyword}' is popular in Kenya {context} #Education",
        "~ Understanding '{keyword}': {context} #LearnSomethingNew #Kenya",
        "~ Kenyan trend spotlight: '{keyword}' - {context} #KnowledgeIsWealth",
        "~ Deep dive: '{keyword}' and its impact in Kenya {context}" >>,
     engagement |-> <<
        "~ What's your take on '{keyword}' trending in Kenya? {context} #KenyaDebate",
        "~ Quick poll: How do you feel about '{keyword}'? {context} #KenyaOpinion",
        "~ Let's discuss '{keyword}' - what are your thoughts, KOT? {context}",
        "~~ Kenya speaks: Share your opinion on '{keyword}' {context} #Discussion" >>,
     news |-> <<
        "~ News update: '{keyword}' making headlines in Kenya {context} #KenyaNews",
        "~ Alert: '{keyword}' - here's what Kenyans need to know {context}",
        "~ Update on '{keyword}': {context} #NewsUpdate #Kenya",
        "~~ Important: '{keyword}' trending - stay informed {context}" >>]

\* cls.POST_TEMPLATES[key]
Subscript(d, key) == IF key \in DOMAIN d THEN Return(d[key]) ELSE Raise("KeyError")

\* d.get(key, default), the default being evaluated before the call
GetOr(d, key, default) ==
    IF default.exc # "" THEN default
    ELSE IF key \in DOMAIN d THEN Return(d[key])
    ELSE default

\* the lookup with no default: an unknown category is a KeyError
get_template_by_category_strict(category) == Subscript(POST_TEMPLATES, category)

\* cls.POST_TEMPLATES.get(category, cls.POST_TEMPLATES['trending'])
get_template_by_category(category) ==
    GetOr(POST_TEMPLATES, category, Subscript(POST_TEMPLATES, "trending"))

\* category strings: the defined ones, and strings that name no category
Categories ==
    { "trending", "educational", "engagement", "news",
      "", "sports", "Trending", "NEWS", "news ", "breaking" }

TemplateCalls ==
    { [NoCall EXCEPT !.op = "get_template_by_category", !.category = c] :
        c \in Categories }

(***************************************************************************)
(* What the other parts hold while one part is exercised                   *)
(***************************************************************************)

\* no run of run_automation yet
NoRun == [seq |-> 0, job |-> 0, outcome |-> "", caught |-> "", raised |-> "",
          filename |-> 0, save_error |-> "", trending_keywords |-> << >>,
          failed |-> {}, prev_failed |-> {}, calls |-> << >>]
NoUpstream == [trending |-> Return(<< >>), interest |-> Return(EmptyDict),
               related |-> "", io |-> ""]
NotStarted == [at |-> "idle", queue |-> << >>]

GeneratorIdle == rng = 0 /\ call = NoCall /\ ret = NoRet
StoreIdle     == logFile = MissingFile
RunIdle       == /\ now = 0 /\ files = EmptyDict /\ jobs = << >> /\ pc = NotStarted
                 /\ run = NoRun /\ upstream = NoUpstream

storeVars == << logFile >>
runVars   == << now, files, jobs, pc, run, upstream >>

(***************************************************************************)
(* The generator called with inputs of every shape                         *)
(***************************************************************************)

InitGenerator ==
    /\ \/ call \in ContextCalls /\ rng = 0
       \/ call \in CreateCalls /\ rng \in 0..(RngModulus - 1)
       \/ call \in TemplateCalls /\ rng = 0
    /\ ret = NoRet
    /\ StoreIdle
    /\ RunIdle

CallGenerateContext ==
    /\ call.op = "generate_context"
    /\ ret = NoRet
    /\ ret' = generate_context(call.keyword, call.interest_data, call.related)
    /\ UNCHANGED << rng, call, storeVars, runVars >>

CallCreatePosts ==
    /\ call.op = "create_social_media_posts"
    /\ ret = NoRet
    /\ \E r \in { create_social_media_posts(call.trending_keywords, call.interest_data,
                                             call.related, rng, now) } :
           /\ ret' = [exc |-> r.exc, value |-> r.value, parts |-> << >>]
           /\ rng' = r.rng
    /\ UNCHANGED << call, storeVars, runVars >>

CallGetTemplate ==
    /\ call.op = "get_template_by_category"
    /\ ret = NoRet
    /\ \E r \in { get_template_by_category(call.category) } :
           ret' = [exc |-> r.exc, value |-> r.value, parts |-> << >>]
    /\ UNCHANGED << rng, call, storeVars, runVars >>

NextGenerator == CallGenerateContext \/ CallCreatePosts \/ CallGetTemplate

SpecGenerator == InitGenerator /\ [][NextGenerator]_vars

(***************************************************************************)
(* Properties of the generator                                             *)
(***************************************************************************)

Returned(op) == call.op = op /\ ret.exc = ""
Ended(op)    == call.op = op /\ ret.exc # "pending"

TierPhrases == { PeakPhrase, GrowingPhrase, MomentumPhrase }

\* the tier phrases among the emitted context parts
TiersEmitted == { i \in 1..Len(ret.parts) : ret.parts[i] \in TierPhrases }

HasScore == call.keyword \in DOMAIN call.interest_data

TopOfCall == DictGet(call.related, "top", NoneVal)

\* C1: create_social_media_posts returns min(5, n) posts in input order, the
\* i-th post carrying the i-th keyword in its keyword field and in its
\* content; it never raises.
C1_PostsPerKeyword ==
    Ended("create_social_media_posts") =>
        /\ ret.exc = ""
        /\ Len(ret.value) = Min(5, Len(call.trending_keywords))
        /\ \A i \in 1..Len(ret.value) :
              /\ ret.value[i].keyword = call.trending_keywords[i]
              /\ Contains(ret.value[i].content, call.trending_keywords[i])

\* C4: with a non-empty 'top', generate_context returns a context that names
\* the first query of 'top', after the tier phrase and a single space if a
\* tier phrase was emitted.
C4_RelatedPhraseIncluded ==
    (Ended("generate_context") /\ Len(TopOfCall.rows) > 0) =>
        /\ ret.exc = ""
        /\ ret.value =
              (IF HasScore THEN ret.parts[1] \o " " ELSE "")
              \o RelatedPhrase(TopOfCall.rows[1].query)

\* C5: a keyword with a score s in 0..100 gets exactly one tier phrase: peak
\* iff s > 80, growing iff 50 < s <= 80, momentum iff s <= 50; a keyword with
\* no score gets none. The returned context starts with the phrase emitted.
C5_TierByThreshold ==
    Ended("generate_context") =>
        IF HasScore
        THEN LET s == call.interest_data[call.keyword] IN
             /\ Cardinality(TiersEmitted) = 1
             /\ (PeakPhrase \in Range(ret.parts)) <=> (s > 80)
             /\ (GrowingPhrase \in Range(ret.parts)) <=> (50 < s /\ s <= 80)
             /\ (MomentumPhrase \in Range(ret.parts)) <=> (s <= 50)
             /\ ret.exc = "" =>
                   SubSeq(ret.value, 1, Len(ret.parts[1])) = ret.parts[1]
        ELSE /\ TiersEmitted = {}
             /\ ret.exc = "" => \A ph \in TierPhrases : ~Contains(ret.value, ph)

\* a score of exactly 80 has been given the growing phrase
C5_Witness ==
    /\ Returned("generate_context")
    /\ HasScore
    /\ call.interest_data[call.keyword] = 80
    /\ ret.value = GrowingPhrase

\* C6: with no score and a related-query set that is empty, lacks 'top' or
\* holds an absent or empty 'top', generate_context returns the fallback.
C6_FallbackOnMissing ==
    (Ended("generate_context") /\ ~HasScore /\ Len(TopOfCall.rows) = 0) =>
        /\ ret.exc = ""
        /\ ret.value = Fallback

\* C7: every returned post's character_count is the length of its content.
C7_CharacterCount ==
    Returned("create_social_media_posts") =>
        \A i \in 1..Len(ret.value) :
            ret.value[i].character_count = Len(ret.value[i].content)

\* five posts have been returned, each ending in its three hashtags
C7_Witness ==
    /\ Returned("create_social_media_posts")
    /\ Len(ret.value) = 5
    /\ \A i \in 1..5 : ret.value[i].character_count > 80

(***************************************************************************)
(* The clock and datetime's conversions                                    *)
(***************************************************************************)

\* clock ticks in one second
TicksPerSecond == 2

\* datetime.now().isoformat(): the second and the fraction of it
isoformat(t) == [second |-> t \div TicksPerSecond, fraction |-> t % TicksPerSecond]

\* datetime.now().strftime("%Y%m%d_%H%M%S"): the second alone
strftime(t) == t \div TicksPerSecond

(***************************************************************************)
(* The processed-keyword log: load_previous_trends, save_processed_trends  *)
(***************************************************************************)

\* a file holding the JSON object data
ObjectFile(data) == [kind |-> "object", data |-> data]
\* a file whose text is no JSON document (garbage, or a write cut short)
MalformedFile == [kind |-> "malformed", data |-> EmptyDict]
\* a file holding a JSON array
ArrayFile == [kind |-> "array", data |-> EmptyDict]

\* json.load(f): the document, or the error
json_load(file) ==
    IF file.kind = "malformed" THEN Raise("JSONDecodeError") ELSE Return(file)

\* only FileNotFoundError is handled; data.get exists on a dict alone
load_previous_trends(file) ==
    IF file.kind = "missing" THEN Return(<< >>)
    ELSE LET data == json_load(file) IN
         IF data.exc # "" THEN Raise(data.exc)
         ELSE IF data.value.kind # "object" THEN Raise("AttributeError")
         ELSE Return(DictGet(data.value.data, "processed_keywords", << >>))

\* what a write to a file may meet
WriteOutcomes == { "ok", "open_fails", "write_fails" }

\* open(filename, 'w') and json.dump(data, f) inside try/except Exception:
\* a failed open leaves the file as it was, a failed dump leaves it cut short
WriteJson(file, data, io) ==
    CASE io = "ok"          -> ObjectFile(data)
      [] io = "open_fails"  -> file
      [] io = "write_fails" -> MalformedFile

\* the log written under another key than the one load reads
save_processed_trends_otherkey(file, keywords, t, io) ==
    WriteJson(file, [keywords |-> keywords, last_updated |-> isoformat(t)], io)

save_processed_trends(file, keywords, t, io) ==
    WriteJson(file, [processed_keywords |-> keywords, last_updated |-> isoformat(t)], io)

(***************************************************************************)
(* The log read and written by a caller                                    *)
(***************************************************************************)

MaxStoreTime == 2

KeywordArgs == { << >>, << "NTSA" >>, << "KCSE 2024", "NTSA" >> }

\* the shapes the log file can have on disk
LogFiles ==
    { MissingFile, MalformedFile, ArrayFile,
      ObjectFile([last_updated |-> isoformat(0)]),
      ObjectFile([trends |-> << "NTSA" >>]) }
    \cup { ObjectFile([processed_keywords |-> k, last_updated |-> isoformat(0)]) :
              k \in KeywordArgs }
    \cup { ObjectFile([processed_keywords |-> << "NTSA" >>,
                       last_updated |-> isoformat(0), source |-> "manual"]) }

InitStore ==
    /\ GeneratorIdle
    /\ logFile \in LogFiles
    /\ now \in 0..1
    /\ files = EmptyDict /\ jobs = << >> /\ pc = NotStarted
    /\ run = NoRun /\ upstream = NoUpstream

Load ==
    /\ call' = [NoCall EXCEPT !.op = "load_previous_trends", !.before = logFile]
    /\ \E r \in { load_previous_trends(logFile) } :
           ret' = [exc |-> r.exc, value |-> r.value, parts |-> << >>]
    /\ UNCHANGED << rng, logFile, runVars >>

Save ==
    \E keywords \in KeywordArgs, io \in WriteOutcomes :
        /\ call' = [NoCall EXCEPT !.op = "save_processed_trends",
                                  !.trending_keywords = keywords,
                                  !.before = logFile, !.io = io]
        /\ ret' = [exc |-> "", value |-> "None", parts |-> << >>]
        /\ logFile' = save_processed_trends(logFile, keywords, now, io)
        /\ UNCHANGED << rng, runVars >>

\* save_processed_trends(load_previous_trends())
SaveLoaded ==
    \E io \in WriteOutcomes, r \in { load_previous_trends(logFile) } :
        /\ call' = [NoCall EXCEPT !.op = "save(load())",
                                  !.before = logFile, !.io = io]
        /\ IF r.exc # ""
           THEN /\ ret' = [exc |-> r.exc, value |-> "", parts |-> << >>]
                /\ logFile' = logFile
           ELSE /\ ret' = [exc |-> "", value |-> "None", parts |-> << >>]
                /\ logFile' = save_processed_trends(logFile, r.value, now, io)
        /\ UNCHANGED << rng, runVars >>

StoreTick ==
    /\ now < MaxStoreTime
    /\ now' = now + 1
    /\ UNCHANGED << rng, call, ret, logFile, files, jobs, pc, run, upstream >>

NextStore == Load \/ Save \/ SaveLoaded \/ StoreTick

SpecStore == InitStore /\ [][NextStore]_vars

(***************************************************************************)
(* Properties of the log                                                   *)
(***************************************************************************)

\* the persisted content without the last_updated field
Persisted(file) ==
    [kind |-> file.kind,
     data |-> [k \in DOMAIN file.data \ {"last_updated"} |-> file.data[k]]]

\* C3: load_previous_trends never raises, and returns the empty collection
\* for a missing log and for a log whose content is no JSON object.
C3_LoadNeverRaises ==
    Ended("load_previous_trends") =>
        /\ ret.exc = ""
        /\ call.before.kind \in {"missing", "malformed", "array"} => ret.value = << >>

\* C8: save(load()) leaves the persisted content of a missing log and of a
\* log holding a JSON object unchanged but for last_updated (stated here for
\* the writes that succeed).
C8_RoundTripNoOp ==
    (Ended("save(load())") /\ call.io = "ok"
        /\ call.before.kind \in {"missing", "object"}) =>
        Persisted(logFile) = Persisted(call.before)

\* C8 as amended: after save(load()) with a write that succeeds the log
\* holds the processed_keywords that load returned (the empty list for a
\* missing log and for an object without that key) and last_updated, and no
\* other key; so the content is unchanged but for last_updated exactly when
\* the log held an object with processed_keywords and at most last_updated.
\* A failed open leaves the log as it was.
C8_RoundTripKeepsKeywords ==
    (call.op = "save(load())" /\ ret.exc = "") =>
        /\ call.io = "ok" =>
              /\ Persisted(logFile) =
                    [kind |-> "object",
                     data |-> [processed_keywords |->
                                  DictGet(call.before.data, "processed_keywords", << >>)]]
              /\ "last_updated" \in DOMAIN logFile.data
              /\ (/\ call.before.kind = "object"
                  /\ "processed_keywords" \in DOMAIN call.before.data
                  /\ DOMAIN call.before.data \subseteq {"processed_keywords", "last_updated"})
                 => Persisted(logFile) = Persisted(call.before)
        /\ call.io = "open_fails" => logFile = call.before

\* a log of two keywords has been through save(load()) and still holds them
C8_Witness ==
    /\ call.op = "save(load())" /\ ret.exc = "" /\ call.io = "ok"
    /\ call.before.kind = "object"
    /\ DictGet(call.before.data, "processed_keywords", << >>) = << "KCSE 2024", "NTSA" >>
    /\ logFile.data.processed_keywords = << "KCSE 2024", "NTSA" >>
    /\ logFile.data.last_updated # call.before.data.last_updated

(***************************************************************************)
(* The log file as text, opened, written and read by two runs at once      *)
(***************************************************************************)

\* the pieces of the text json.dump writes for the log
Token(tok, str, time) == [tok |-> tok, str |-> str, time |-> time]
OpenBrace  == Token("{", "", isoformat(0))
CloseBrace == Token("}", "", isoformat(0))
StrOf(k)   == Token("str", k, isoformat(0))
TimeOf(ts) == Token("time", "", ts)

\* json.dump(data, f, indent=2) of the two-key object of save_processed_trends
Encode(data) ==
    << OpenBrace >>
    \o [i \in 1..Len(data.processed_keywords) |-> StrOf(data.processed_keywords[i])]
    \o << TimeOf(data.last_updated), CloseBrace >>

\* the text is one whole object: a brace, the keywords, the time, a brace
WellFormed(text) ==
    /\ Len(text) >= 3
    /\ text[1] = OpenBrace
    /\ text[Len(text)] = CloseBrace
    /\ text[Len(text) - 1].tok = "time"
    /\ \A i \in 2..(Len(text) - 2) : text[i].tok = "str"

\* what json.load finds in a text: the object, or no JSON document (an
\* empty file, or data after the end of the object)
Decode(text) ==
    IF WellFormed(text)
    THEN ObjectFile([processed_keywords |->
                        [i \in 1..(Len(text) - 3) |-> text[i + 1].str],
                     last_updated |-> text[Len(text) - 1].time])
    ELSE MalformedFile

TextFile(text) == [kind |-> "text", data |-> text]

\* open(filename, 'r') and f.read()
ReadFile(file) == IF file.kind = "missing" THEN MissingFile ELSE Decode(file.data)

\* open(filename, 'w'): the file is created, or cut to length zero
OpenForWrite(file) == TextFile(<< >>)

\* leaving the with block: the buffered text is written at the start of the
\* file, over what is there and no further
FlushAtClose(file, text) ==
    TextFile(text \o SubSeq(file.data, Len(text) + 1, Len(file.data)))

\* the two runs, and the calls each makes on the log
Runs == { 1, 2 }
MaxRunOps == 2

NoSave == [some |-> FALSE, keywords |-> << >>]

InitTwoRuns ==
    /\ rng = 0
    /\ now = 0
    /\ files = EmptyDict /\ jobs = << >> /\ upstream = NoUpstream
    /\ logFile \in { MissingFile,
                     TextFile(Encode([processed_keywords |-> << "NTSA" >>,
                                      last_updated |-> isoformat(0)])) }
    /\ pc = [p \in Runs |-> [at |-> "idle", left |-> MaxRunOps]]
    /\ call = [p \in Runs |-> [keywords |-> << >>, text |-> << >>]]
    /\ ret = [p \in Runs |-> NoRet]
    /\ run = [lists |-> { load_previous_trends(ReadFile(logFile)).value },
              last |-> NoSave]

\* load_previous_trends by run p
LoadLog(p) ==
    /\ pc[p].at = "idle" /\ pc[p].left > 0
    /\ \E r \in { load_previous_trends(ReadFile(logFile)) } :
           ret' = [ret EXCEPT ![p] = [exc |-> r.exc, value |-> r.value,
                                      parts |-> << >>]]
    /\ pc' = [pc EXCEPT ![p].left = @ - 1]
    /\ UNCHANGED << rng, call, logFile, now, files, jobs, run, upstream >>

\* save_processed_trends by run p, up to the open: the data is built and the
\* file is opened for writing
SaveOpen(p) ==
    /\ pc[p].at = "idle" /\ pc[p].left > 0
    /\ \E keywords \in KeywordArgs :
          /\ call' = [call EXCEPT ![p] =
                         [keywords |-> keywords,
                          text |-> Encode([processed_keywords |-> keywords,
                                           last_updated |-> isoformat(now)])]]
          /\ run' = [run EXCEPT !.lists = @ \cup { keywords }]
    /\ logFile' = OpenForWrite(logFile)
    /\ pc' = [pc EXCEPT ![p].at = "opened"]
    /\ UNCHANGED << rng, ret, now, files, jobs, upstream >>

\* save_processed_trends by run p, from json.dump to the end of the with block
SaveClose(p) ==
    /\ pc[p].at = "opened"
    /\ logFile' = FlushAtClose(logFile, call[p].text)
    /\ pc' = [pc EXCEPT ![p] = [at |-> "idle", left |-> @.left - 1]]
    /\ run' = [run EXCEPT !.last = [some |-> TRUE, keywords |-> call[p].keywords]]
    /\ UNCHANGED << rng, call, ret, now, files, jobs, upstream >>

NextTwoRuns ==
    \/ \E p \in Runs : LoadLog(p)
    \/ \E p \in Runs : SaveOpen(p)
    \/ \E p \in Runs : SaveClose(p)
    \/ StoreTick

SpecTwoRuns == InitTwoRuns /\ [][NextTwoRuns]_vars

\* C14: save_processed_trends overwrites the log atomically: whatever the
\* interleaving of the two runs, a load returns the list persisted before or
\* the whole list of one save and never fails on an empty, cut or mixed
\* file, and once both runs are idle the log holds exactly the list of the
\* save that ended last
C14_AtomicOverwrite ==
    /\ \A p \in Runs :
          ret[p].exc # "pending" => ret[p].exc = "" /\ ret[p].value \in run.lists
    /\ (run.last.some /\ \A p \in Runs : pc[p].at = "idle") =>
          /\ ReadFile(logFile).kind = "object"
          /\ ReadFile(logFile).data.processed_keywords = run.last.keywords

(***************************************************************************)
(* GoogleTrendsKenya: what the trends service answers, and the fetchers    *)
(***************************************************************************)

\* trending_searches(pn='kenya'): an error, an empty frame, or ranked keywords
TrendingResponses ==
    { Raise("ResponseError"), Return(<< >>),
      Return(SubSeq(KeywordPool, 1, MaxKeywords)) }

get_trending_searches(response) ==
    IF response.exc # "" THEN << >>
    ELSE IF Len(response.value) > 0 THEN Take(response.value, 10)
    ELSE << >>

\* the scores of the latest row, by the keyword's place in the payload
LatestScores == << 95, 60, 10, 80, 50 >>

IndexOf(seq, x) == CHOOSE i \in 1..Len(seq) : seq[i] = x

\* interest_over_time() for a payload: an error, or the latest row with its
\* isPartial column
InterestResponses(kw_list) ==
    { Raise("ResponseError"),
      Return([k \in Range(kw_list) \cup {"isPartial"} |->
                 IF k \in Range(kw_list) THEN LatestScores[IndexOf(kw_list, k)]
                 ELSE 0]) }

get_interest_over_time(keywords, response) ==
    IF Len(keywords) = 0 THEN EmptyDict
    ELSE IF response.exc # "" THEN EmptyDict
    ELSE IF DOMAIN response.value = {} THEN EmptyDict
    ELSE [k \in DOMAIN response.value \ {"isPartial"} |-> response.value[k]]

\* how the service answers related_queries() during one run
RelatedPatterns == { "error", "none", "rising", "top", "top_second" }

FoundTop    == DataFrame(<< Row("ntsa tims"), Row("ntsa portal") >>)
FoundRising == DataFrame(<< Row("helb loan") >>)

\* related_queries() for the i-th keyword under a pattern
RelatedResponse(pattern, keyword, i) ==
    CASE pattern = "error"  -> Raise("ResponseError")
      [] pattern = "none"   ->
            Return([k \in {keyword} |-> [top |-> NoneVal, rising |-> NoneVal]])
      [] pattern = "rising" ->
            Return([k \in {keyword} |-> [top |-> NoneVal, rising |-> FoundRising]])
      [] pattern = "top"    ->
            Return([k \in {keyword} |-> [top |-> FoundTop, rising |-> FoundRising]])
      [] pattern = "top_second" ->
            Return([k \in {keyword} |->
                      IF i = 2 THEN [top |-> FoundTop, rising |-> NoneVal]
                      ELSE [top |-> NoneVal, rising |-> NoneVal]])

get_related_queries(keyword, response) ==
    IF response.exc # "" THEN EmptyDict
    ELSE DictGet(response.value, keyword, EmptyDict)

(***************************************************************************)
(* TrendsAutomationSystem.save_data                                        *)
(***************************************************************************)

Put(f, k, v) == [x \in DOMAIN f \cup {k} |-> IF x = k THEN v ELSE f[x]]

\* json.dump raises TypeError on a DataFrame
Serializable(data) ==
    \A k \in DOMAIN data.related_queries :
        \A field \in DOMAIN data.related_queries[k] :
            data.related_queries[k][field].kind # "DataFrame"

\* the file written, and the error that was handled
Written(fs, filename, new, error) ==
    [files    |-> IF new.kind = "missing" THEN fs ELSE Put(fs, filename, new),
     filename |-> filename,
     error    |-> error]

\* open(filename, 'w') and json.dump with what they meet
WriteFile(fs, filename, data, met, io) ==
    Written(fs, filename,
            WriteJson(IF filename \in DOMAIN fs THEN fs[filename] ELSE MissingFile,
                      data, met),
            IF met = "ok" THEN "" ELSE IF io = "ok" THEN "TypeError" ELSE "OSError")

\* the file named after the second is written; every error is handled here
save_data(fs, data, t, io) ==
    WriteFile(fs, strftime(t), data,
              IF io = "ok" /\ ~Serializable(data) THEN "write_fails" ELSE io, io)

(***************************************************************************)
(* TrendsAutomationSystem.run_automation                                   *)
(***************************************************************************)

\* a run that ends before it writes anything
EarlyEnd(outcome, raised, trending_keywords, fs, r) ==
    [outcome |-> outcome, raised |-> raised, caught |-> "",
     trending_keywords |-> trending_keywords,
     files |-> fs, rng |-> r, filename |-> 0, save_error |-> ""]

\* the test that is never true: the run goes on with no keyword
NoKeywordsFound_never(trending_keywords) == FALSE

\* if not trending_keywords: return
NoKeywordsFound(trending_keywords) == Len(trending_keywords) = 0

\* Step 5: the data is saved and the run completes
SaveStep(trending_keywords, interest_data, related_queries_data, posts, io, fs, t) ==
    IF posts.exc # ""
    THEN EarlyEnd("", posts.exc, trending_keywords, fs, posts.rng)
    ELSE [EarlyEnd("completed", "", trending_keywords, fs, posts.rng) EXCEPT
            !.files = save_data(fs, [timestamp         |-> isoformat(t),
                                     trending_keywords |-> trending_keywords,
                                     interest_data     |-> interest_data,
                                     related_queries   |-> related_queries_data,
                                     generated_posts   |-> posts.value],
                                t, io).files,
            !.filename = strftime(t),
            !.save_error = save_data(fs, [timestamp         |-> isoformat(t),
                                          trending_keywords |-> trending_keywords,
                                          interest_data     |-> interest_data,
                                          related_queries   |-> related_queries_data,
                                          generated_posts   |-> posts.value],
                                     t, io).error]

\* Step 4: the posts are generated from the data fetched
ComposeStep(trending_keywords, interest_data, related_queries_data, io, fs, r, t) ==
    SaveStep(trending_keywords, interest_data, related_queries_data,
             create_social_media_posts(trending_keywords, interest_data,
                                       related_queries_data, r, t),
             io, fs, t)

\* Steps 2 and 3: interest of the first five keywords, related queries of
\* the first three
FetchStep(trending_keywords, interest, pattern, io, fs, r, t) ==
    IF NoKeywordsFound(trending_keywords)
    THEN EarlyEnd("no_keywords", "", trending_keywords, fs, r)
    ELSE ComposeStep(trending_keywords,
                     get_interest_over_time(Take(trending_keywords, 5), interest),
                     [k \in Range(Take(trending_keywords, 3)) |->
                         get_related_queries(k,
                             RelatedResponse(pattern, k, IndexOf(trending_keywords, k)))],
                     io, fs, r, t)

\* the body of the try block, with the service's answers, what the write
\* meets, the files fs, the generator r and the time t of the run
RunSteps(trending, interest, pattern, io, fs, r, t) ==
    FetchStep(get_trending_searches(trending), interest, pattern, io, fs, r, t)

\* the run with no handler around its steps
HandleException_absent(steps) == steps

\* except Exception as e: print
HandleException(steps) ==
    IF steps.raised # ""
    THEN [steps EXCEPT !.outcome = "error", !.caught = steps.raised, !.raised = ""]
    ELSE steps

run_automation(trending, interest, pattern, io, fs, r, t) ==
    HandleException(RunSteps(trending, interest, pattern, io, fs, r, t))

\* the steps of a run at which something failed
FailedSteps(result, trending, interest, pattern) ==
    (IF trending.exc # "" THEN {"trend fetch"} ELSE {})
    \cup (IF Len(result.trending_keywords) > 0 /\ interest.exc # ""
          THEN {"interest fetch"} ELSE {})
    \cup (IF Len(result.trending_keywords) > 0 /\ pattern = "error"
          THEN {"related fetch"} ELSE {})
    \cup (IF result.caught # "" \/ result.raised # ""
          THEN {"post composition"} ELSE {})
    \cup (IF result.save_error # "" THEN {"file write"} ELSE {})

\* one entry per related-queries fetch of the loop over trending_keywords[:3]
RelatedFetches(n) == [i \in 1..n |-> "get_related_queries"]

\* the methods a run called on its fetcher, its generator and itself, in the
\* order of the try block
CallsMade(result) ==
    << "get_trending_searches" >>
    \o (IF result.outcome = "no_keywords" THEN << >>
        ELSE << "get_interest_over_time" >>
             \o RelatedFetches(Min(3, Len(result.trending_keywords)))
             \o << "create_social_media_posts" >>
             \o (IF result.outcome = "completed" THEN << "save_data" >> ELSE << >>))

(***************************************************************************)
(* setup_scheduler: the jobs and the loop                                  *)
(***************************************************************************)

Hours(h)   == h * 3600 * TicksPerSecond
Seconds(n) == n * TicksPerSecond
Day        == Hours(24)

TimeOfDay(t) == t % Day
Midnight(t)  == t - TimeOfDay(t)

\* schedule.every(6).hours
IntervalHours == 6
\* schedule.every().day.at("09:00"), at("15:00"), at("21:00")
DailyTimes == << 9, 15, 21 >>
\* time.sleep(60)
SleepSeconds == 60

\* job 1 runs every IntervalHours, jobs 2.. run daily at DailyTimes
JobIds == 1..(1 + Len(DailyTimes))

\* Job._schedule_next_run at time t: the interval from t, or the next time
\* of day that is still ahead
schedule_next_run(j, t) ==
    IF j = 1 THEN t + Hours(IntervalHours)
    ELSE LET at_time == Hours(DailyTimes[j - 1]) IN
         IF at_time > TimeOfDay(t) THEN Midnight(t) + at_time
         ELSE Midnight(t) + Day + at_time

\* sorted(job for job in self.jobs if job.should_run): by next_run, the
\* jobs' own order breaking ties
RECURSIVE SortJobs(_, _)
SortJobs(S, next_run) ==
    IF S = {} THEN << >>
    ELSE LET j == CHOOSE j \in S : \A k \in S :
                     \/ next_run[j] < next_run[k]
                     \/ next_run[j] = next_run[k] /\ j <= k
         IN  << j >> \o SortJobs(S \ {j}, next_run)

RunnableJobs(next_run, t) == SortJobs({ j \in JobIds : t >= next_run[j] }, next_run)

\* the minutes of polling the model follows after 09:00
MaxExtraMinutes == 1
\* the ticks one run may take
MaxRunTicks == 1
\* the seeds the generator may start from
MaxSeed == 0

EndTime == Hours(9) + Seconds(MaxExtraMinutes * SleepSeconds) + MaxRunTicks * 2

\* the scheduler is started one minute before 03:00, or at 03:00 sharp
StartTimes == { Hours(3) - Seconds(SleepSeconds), Hours(3) }

Init ==
    /\ rng \in 0..MaxSeed
    /\ call = NoCall
    /\ ret = NoRet
    /\ StoreIdle
    /\ now \in StartTimes
    /\ files = EmptyDict
    /\ jobs = [j \in JobIds |-> schedule_next_run(j, now)]
    /\ pc = [at |-> "loop", queue |-> << >>]
    /\ run = NoRun
    /\ upstream = NoUpstream

\* schedule.run_pending() picks the jobs that are due
RunPending ==
    /\ pc.at = "loop"
    /\ pc' = [at |-> "jobs", queue |-> RunnableJobs(jobs, now)]
    /\ UNCHANGED << rng, call, ret, logFile, now, files, jobs, run, upstream >>

\* the next due job: run_automation, then the job is scheduled again; an
\* exception leaving run_automation leaves run_pending and the loop
RunJob ==
    /\ pc.at = "jobs"
    /\ Len(pc.queue) > 0
    /\ \E trending \in TrendingResponses, pattern \in RelatedPatterns,
          io \in WriteOutcomes, d \in 0..MaxRunTicks :
         \E interest \in InterestResponses(Take(get_trending_searches(trending), 5)) :
           \E result \in { run_automation(trending, interest, pattern, io,
                                          files, rng, now + d) } :
              \* one choice stands for all the answers a run never asks for
              /\ result.outcome = "no_keywords" =>
                    interest.exc # "" /\ pattern = "error"
              /\ result.filename = 0 => io = "ok"
              /\ now' = now + d
              /\ files' = result.files
              /\ rng' = result.rng
              /\ upstream' = [trending |-> trending, interest |-> interest,
                              related |-> pattern, io |-> io]
              /\ run' = [seq |-> run.seq + 1, job |-> Head(pc.queue),
                         outcome |-> result.outcome, caught |-> result.caught,
                         raised |-> result.raised, filename |-> result.filename,
                         save_error |-> result.save_error,
                         trending_keywords |-> result.trending_keywords,
                         failed |-> FailedSteps(result, trending, interest, pattern),
                         prev_failed |-> run.failed,
                         calls |-> CallsMade(result)]
              /\ IF result.raised # ""
                 THEN /\ pc' = [at |-> "crashed", queue |-> << >>]
                      /\ jobs' = jobs
                 ELSE /\ pc' = [pc EXCEPT !.queue = Tail(pc.queue)]
                      /\ jobs' = [jobs EXCEPT ![Head(pc.queue)] =
                                     schedule_next_run(Head(pc.queue), now + d)]
    /\ UNCHANGED << call, ret, logFile >>

\* time.sleep(60) once the due jobs have run
Sleep ==
    /\ pc.at = "jobs"
    /\ Len(pc.queue) = 0
    /\ now + Seconds(SleepSeconds) <= EndTime
    /\ now' = now + Seconds(SleepSeconds)
    /\ pc' = [at |-> "loop", queue |-> << >>]
    /\ UNCHANGED << rng, call, ret, logFile, files, jobs, run, upstream >>

Next == RunPending \/ RunJob \/ Sleep

Spec == Init /\ [][Next]_vars

(***************************************************************************)
(* Properties of a run and of the scheduler loop                           *)
(***************************************************************************)

\* this step is a run of run_automation that found no trending keyword
EmptyRun ==
    /\ run'.seq = run.seq + 1
    /\ Len(run'.trending_keywords) = 0

\* C2: a run that gets an empty trending-keyword list still writes an output
\* file whose generated_posts list is empty, and does not crash.
C2_EmptyTrendsStillWrites ==
    [][EmptyRun =>
          /\ pc'.at # "crashed"
          /\ \E f \in DOMAIN files' :
                /\ f \notin DOMAIN files \/ files'[f] # files[f]
                /\ files'[f].kind = "object"
                /\ files'[f].data.generated_posts = << >>]_vars

\* C2 as amended: a run that gets an empty trending-keyword list returns at
\* once: it writes no output file, raises nothing and does not crash.
C2_EmptyTrendsWriteNothing ==
    [][EmptyRun =>
          /\ files' = files
          /\ run'.outcome = "no_keywords"
          /\ run'.filename = 0
          /\ run'.raised = ""
          /\ pc'.at # "crashed"]_vars

\* the service returned an empty list and the run ended with no keyword
C2_Witness ==
    /\ run.seq > 0
    /\ upstream.trending = Return(<< >>)
    /\ run.outcome = "no_keywords"
    /\ pc.at = "jobs"

\* a job is due at this poll, or waits in the queue of this poll
JobDue ==
    \/ pc.at = "loop" /\ \E j \in JobIds : now >= jobs[j]
    \/ pc.at = "jobs" /\ Len(pc.queue) > 0

\* C10: a failure at a step of a run never leaves run_automation, so the
\* scheduler loop keeps running: it never ends on an exception, and after a
\* run in which a step failed a job that is due at a poll can be run and is
\* the very next thing the loop does.
C10_SchedulerSurvivesFailures ==
    /\ [](pc.at # "crashed" /\ run.raised = "")
    /\ []((run.failed # {} /\ JobDue) => ENABLED (RunPending \/ RunJob))
    /\ [][(run.failed # {} /\ JobDue) =>
            IF pc.at = "loop" THEN Len(pc'.queue) > 0
            ELSE run'.seq = run.seq + 1]_vars

\* a second run has been made after a run whose post composition failed
C10_Witness ==
    /\ run.seq = 2
    /\ "post composition" \in run.prev_failed
    /\ pc.at = "jobs"

\* a run that opened its output file for writing
WritingRun ==
    /\ run'.seq = run.seq + 1
    /\ run'.filename # 0
    /\ upstream'.io # "open_fails"

\* C11: every run that writes an output file writes it to a fresh filename:
\* the file it opens was written by no earlier run, also when two scheduled
\* jobs fall due at the same tick and run back to back
C11_FreshFilename ==
    [][WritingRun => run'.filename \notin DOMAIN files]_vars

DefinedCategories == { "trending", "educational", "engagement", "news" }

\* C12: get_template_by_category returns the pool of a defined category and
\* the 'trending' pool for every other category string; the pool returned
\* is never empty and the call never raises
C12_TemplateByCategory ==
    Ended("get_template_by_category") =>
        /\ ret.exc = ""
        /\ Len(ret.value) > 0
        /\ call.category \in DefinedCategories =>
               ret.value = POST_TEMPLATES[call.category]
        /\ call.category \notin DefinedCategories =>
               ret.value = POST_TEMPLATES["trending"]

\* a string that names no category was answered with the 'trending' pool
C12_Witness ==
    /\ Returned("get_template_by_category")
    /\ call.category = "sports"
    /\ Len(ret.value) = 4
    /\ ret.value = POST_TEMPLATES.trending
    /\ ret.value # POST_TEMPLATES.news

\* the places of a method among the calls of the last run
CallsOf(method) == { i \in 1..Len(run.calls) : run.calls[i] = method }

\* C13: every completed run loads the processed-keyword log before it
\* composes the posts and saves the log after composing them
C13_LogReadThenWritten ==
    run.outcome = "completed" =>
        \E l \in CallsOf("load_previous_trends"),
           c \in CallsOf("create_social_media_posts"),
           w \in CallsOf("save_processed_trends") :
            l < c /\ c < w

\* the text of a template before its first placeholder
TemplateHead(template) == SubSeq(template, 1, Find(template, "{", 1) - 1)

StartsWith(content, head) ==
    Len(content) >= Len(head) /\ SubSeq(content, 1, Len(head)) = head

\* the generator's pool of a category
PoolOf(category) ==
    IF category \in DOMAIN post_templates
    THEN Range(post_templates[category]) ELSE {}

\* the categories random.choice can give from some state of the generator
Selectable == { choice(r, TemplateTypes).value : r \in 0..(RngModulus - 1) }

\* every post carries a defined category
C15_CategoryDefined ==
    \A i \in 1..Len(ret.value) : ret.value[i].template_type \in DefinedCategories

\* the content of every post starts as a template of its category's pool
C15_TemplateOfPool ==
    \A i \in 1..Len(ret.value) :
        \E template \in PoolOf(ret.value[i].template_type) :
            StartsWith(ret.value[i].content, TemplateHead(template))

\* C15: the category of a composed post is chosen from the whole set
\* {trending, educational, engagement, news}: each post's category is one of
\* the four, each of the four can be selected, and the template used is of
\* the selected category's pool
C15_CategoryFromDefinedSet ==
    Returned("create_social_media_posts") =>
        /\ C15_CategoryDefined
        /\ \A category \in DefinedCategories : category \in Selectable
        /\ C15_TemplateOfPool

====
